---- MODULE Spec2Model ----
(***************************************************************************)
(* Model of okok_app.py: the OPTION_TYPE enumeration, the dispatch of      *)
(* OptionPricingModel.calculate_option_price, and the Black-Scholes hooks  *)
(* of BlackScholesModel.                                                   *)
(*                                                                         *)
(* Numbers.  The program computes in IEEE double precision.  A finite      *)
(* double is modelled as a fixed-point number: the integer v stands for    *)
(* v / Scale, every operation rounds its exact result to the nearest       *)
(* multiple of 1 / Scale.  The non-finite doubles +inf, -inf and NaN are   *)
(* kept as values of their own, because the code produces them (division   *)
(* by a zero numpy float, np.log of a non-positive number).                *)
(***************************************************************************)
EXTENDS Integers, Sequences, FiniteSets, TLC

\* Resolution of the fixed-point numbers: 1 / Scale = 1e-6.
Scale == 10^6
One == Scale
\* Limb base of the exact multiplication (Scale = Base * Base).
Base == 10^3

Abs(x) == IF x < 0 THEN -x ELSE x
Sgn(x) == IF x < 0 THEN -1 ELSE IF x > 0 THEN 1 ELSE 0

\* round(a * b / Scale) for a, b >= 0, exactly, with no intermediate above
\* 2^31: a and b are split into limbs of three decimal digits.
MulNat(a, b) ==
    LET a0 == a % Base
        a1 == (a \div Base) % Base
        a2 == a \div Scale
        b0 == b % Base
        b1 == (b \div Base) % Base
        b2 == b \div Scale
        low == a0 * b0 + (a0 * b1 + a1 * b0) * Base + (Scale \div 2)
    IN  a2 * b2 * Scale + (a1 * b2 + a2 * b1) * Base
          + (a0 * b2 + a1 * b1 + a2 * b0) + (low \div Scale)

\* The product of two finite doubles (the * of lines 70-91).
MulFx(a, b) == Sgn(a) * Sgn(b) * MulNat(Abs(a), Abs(b))

\* The digits of r / b after the point, n of them, by long division;
\* the last step rounds to nearest.
RECURSIVE DivDigits(_, _, _)
DivDigits(r, b, n) ==
    IF n = 0 THEN (IF 2 * r >= b THEN 1 ELSE 0)
    ELSE ((r * 10) \div b) * 10^(n - 1) + DivDigits((r * 10) % b, b, n - 1)

DivNat(a, b) == (a \div b) * Scale + DivDigits(a % b, b, 6)

\* The quotient of two finite doubles, b # 0.
DivFx(a, b) == Sgn(a) * Sgn(b) * DivNat(Abs(a), Abs(b))

\* Newton's iteration for the square root, from the guess y.
RECURSIVE SqrtIter(_, _, _)
SqrtIter(x, y, fuel) ==
    LET z == (y + DivFx(x, y)) \div 2
    IN  IF fuel = 0 \/ z = y THEN y ELSE SqrtIter(x, z, fuel - 1)

\* np.sqrt of a finite double x >= 0.
SqrtFx(x) == IF x = 0 THEN 0 ELSE SqrtIter(x, IF x > One THEN x ELSE One, 40)

\* ln 2
Ln2 == 693147

\* 2 * (z + z^3/3 + z^5/5 + ...), the series of ln((1+z)/(1-z)), from the
\* term z^k on.
RECURSIVE LnSeries(_, _, _)
LnSeries(zk, z2, k) ==
    IF zk = 0 \/ k > 25 THEN 0
    ELSE (2 * zk) \div k + LnSeries(MulFx(zk, z2), z2, k + 2)

\* ln of a finite double x > 0: halve or double x into [0.7, 1.4], then the
\* series.
RECURSIVE LnFx(_)
LnFx(x) ==
    IF x > 1400000 THEN Ln2 + LnFx((x + 1) \div 2)
    ELSE IF x < 700000 THEN LnFx(2 * x) - Ln2
    ELSE LET z == DivFx(x - One, x + One)
         IN  LnSeries(z, MulFx(z, z), 1)

\* 1 + f + f^2/2! + ..., from the term t = f^k / k! on.
RECURSIVE ExpSeries(_, _, _)
ExpSeries(t, f, k) ==
    IF t = 0 \/ k > 20 THEN 0
    ELSE t + ExpSeries(MulFx(t, f) \div (k + 1), f, k + 1)

\* exp of a finite double x: x = n * ln 2 + f with |f| <= ln 2, exp(f) by
\* its series, then n doublings or halvings.  Below -15 the result is 0 at
\* this resolution.
RECURSIVE ExpFx(_)
ExpFx(x) ==
    IF x < -15 * One THEN 0
    ELSE IF x > Ln2 THEN 2 * ExpFx(x - Ln2)
    ELSE IF x < -Ln2 THEN (ExpFx(x + Ln2) + 1) \div 2
    ELSE One + ExpSeries(x, x, 1)

\* 1 / sqrt(2 pi), and the coefficients of the rational approximation of
\* the normal tail (Abramowitz and Stegun 26.2.17, absolute error < 1e-7).
InvSqrt2Pi == 398942
TailP == 231642
TailB1 == 319382
TailB2 == -356564
TailB3 == 1781478
TailB4 == -1821256
TailB5 == 1330274

\* 1 - Phi(x) for a finite double x >= 0.
NormTail(x) ==
    IF x >= 6 * One THEN 0
    ELSE LET t == DivFx(One, One + MulFx(TailP, x))
             poly == MulFx(t, TailB1 + MulFx(t, TailB2 + MulFx(t, TailB3
                       + MulFx(t, TailB4 + MulFx(t, TailB5)))))
             pdf == MulFx(InvSqrt2Pi, ExpFx(-(MulFx(x, x) \div 2)))
         IN  MulFx(pdf, poly)

\* Phi(x), the standard normal cumulative distribution function of a finite
\* double: the library evaluates the lower tail and reflects it for x > 0.
NormCdf(x) == IF x >= 0 THEN One - NormTail(x) ELSE NormTail(-x)

(***************************************************************************)
(* Doubles: finite, infinite, NaN.                                         *)
(***************************************************************************)
Fin(v) == [cls |-> "fin", v |-> v]
PInf == [cls |-> "inf", v |-> 1]
NInf == [cls |-> "inf", v |-> -1]
NaN == [cls |-> "nan", v |-> 0]
Inf(s) == IF s < 0 THEN NInf ELSE PInf

IsFin(a) == a.cls = "fin"
IsNaN(a) == a.cls = "nan"

\* A Python int as a double.
IntToFx(n) == n * Scale

FNeg(a) == IF a.cls = "nan" THEN NaN ELSE [a EXCEPT !.v = -a.v]

FAdd(a, b) ==
    IF a.cls = "nan" \/ b.cls = "nan" THEN NaN
    ELSE IF a.cls = "inf" /\ b.cls = "inf" THEN (IF a.v = b.v THEN a ELSE NaN)
    ELSE IF a.cls = "inf" THEN a
    ELSE IF b.cls = "inf" THEN b
    ELSE Fin(a.v + b.v)

FSub(a, b) == FAdd(a, FNeg(b))

FMul(a, b) ==
    IF a.cls = "nan" \/ b.cls = "nan" THEN NaN
    ELSE IF a.cls = "inf" \/ b.cls = "inf"
         THEN (IF a.v = 0 \/ b.v = 0 THEN NaN ELSE Inf(Sgn(a.v) * Sgn(b.v)))
    ELSE Fin(MulFx(a.v, b.v))

\* The / of two numpy doubles: a zero divisor gives inf or NaN (numpy warns
\* and does not raise).  The divisors of the program are never -0.0.
FDiv(a, b) ==
    IF a.cls = "nan" \/ b.cls = "nan" THEN NaN
    ELSE IF a.cls = "inf" /\ b.cls = "inf" THEN NaN
    ELSE IF a.cls = "inf" THEN Inf(a.v * (IF b.v < 0 THEN -1 ELSE 1))
    ELSE IF b.cls = "inf" THEN Fin(0)
    ELSE IF b.v = 0 THEN (IF a.v = 0 THEN NaN ELSE Inf(a.v))
    ELSE Fin(DivFx(a.v, b.v))

\* np.log of a finite double.
np_log(x) == IF x > 0 THEN Fin(LnFx(x)) ELSE IF x = 0 THEN NInf ELSE NaN

\* np.sqrt of a finite double.
np_sqrt(x) == IF x >= 0 THEN Fin(SqrtFx(x)) ELSE NaN

\* np.exp of a finite double.
np_exp(x) == Fin(ExpFx(x))

\* norm.cdf(x, 0.0, 1.0)
norm_cdf(a) ==
    IF a.cls = "nan" THEN NaN
    ELSE IF a.cls = "inf" THEN (IF a.v > 0 THEN Fin(One) ELSE Fin(0))
    ELSE Fin(NormCdf(a.v))

(***************************************************************************)
(* The state: the model instances a caller has built and the calls made    *)
(* on them.                                                                *)
(***************************************************************************)
VARIABLES
    live,         \* live[i]: instance i has been constructed
    obj,          \* obj[i]: the fields S, K, T, r, sigma of instance i (its self)
    args,         \* args[i]: the arguments instance i was constructed with
    price,        \* price[i]: the outcome of the last call of each hook of i
    caller,       \* the instance of the last calculate_option_price call
    selector,     \* its argument option_type
    ret,          \* its outcome
    invoked       \* the hooks it invoked

vars == <<live, obj, args, price, caller, selector, ret, invoked>>

(***************************************************************************)
(* Python values.                                                          *)
(***************************************************************************)
\* A str, and a member of the Enum class OPTION_TYPE (which carries its
\* value).  OPTION_TYPE is a plain Enum: a member equals only itself, and
\* a str equals only a str of the same characters.
Str(s) == [type |-> "str", val |-> s]
Member(s) == [type |-> "OPTION_TYPE", val |-> s]
NoValue == [type |-> "none", val |-> ""]

CALL_OPTION == Member("Call Option")
PUT_OPTION == Member("Put Option")

\* member.value
Value(m) == Str(m.val)

\* Mutant of PyEq: the member compared by its value, as if OPTION_TYPE were
\* a str enumeration.
PyEq_by_value(a, b) == a.val = b.val

\* a == b
PyEq(a, b) == a.type = b.type /\ a.val = b.val

\* What a call does: returns a double, or raises.
Return(x) == [kind |-> "return", val |-> x, exc |-> ""]
Raise(e) == [kind |-> "raise", val |-> NaN, exc |-> e]
NoOutcome == [kind |-> "none", val |-> NaN, exc |-> ""]

\* The int -1 that calculate_option_price returns for an unknown selector.
Sentinel == Fin(-One)

(***************************************************************************)
(* BlackScholesModel                                                       *)
(***************************************************************************)
\* a / b of two Python ints, b # 0, as a double.
py_truediv(a, b) == Sgn(a) * Sgn(b) * DivNat(Abs(a), Abs(b))

\* Mutant of BlackScholesModel_init: a 360-day year.
BlackScholesModel_init_360(underlying_spot_price, strike_price, days_to_maturity, risk_free_rate, sigma) ==
    [S |-> underlying_spot_price,
     K |-> strike_price,
     T |-> py_truediv(days_to_maturity, 360),
     r |-> risk_free_rate,
     sigma |-> sigma]

\* __init__: the fields of the new instance.
BlackScholesModel_init(underlying_spot_price, strike_price, days_to_maturity, risk_free_rate, sigma) ==
    [S |-> underlying_spot_price,
     K |-> strike_price,
     T |-> py_truediv(days_to_maturity, 365),
     r |-> risk_free_rate,
     sigma |-> sigma]

Half == One \div 2

\* sigma * np.sqrt(T), the divisor of d1 and d2.
Denominator(self) == FMul(Fin(self.sigma), np_sqrt(self.T))

\* d1 and d2 as _calculate_call_option_price computes them (self.K # 0).
call_d1(self) ==
    FDiv(FAdd(np_log(py_truediv(self.S, self.K)),
              Fin(MulFx(self.r + MulFx(Half, MulFx(self.sigma, self.sigma)), self.T))),
         Denominator(self))

call_d2(self) ==
    FDiv(FAdd(np_log(py_truediv(self.S, self.K)),
              Fin(MulFx(self.r - MulFx(Half, MulFx(self.sigma, self.sigma)), self.T))),
         Denominator(self))

\* d1 and d2 as _calculate_put_option_price computes them (self.K # 0).
put_d1(self) ==
    FDiv(FAdd(np_log(py_truediv(self.S, self.K)),
              Fin(MulFx(self.r + MulFx(Half, MulFx(self.sigma, self.sigma)), self.T))),
         Denominator(self))

put_d2(self) ==
    FDiv(FAdd(np_log(py_truediv(self.S, self.K)),
              Fin(MulFx(self.r - MulFx(Half, MulFx(self.sigma, self.sigma)), self.T))),
         Denominator(self))

\* self.K * np.exp(-self.r * self.T)
DiscountedStrike(self) ==
    FMul(Fin(IntToFx(self.K)), np_exp(MulFx(-self.r, self.T)))

\* _calculate_call_option_price: self.S / self.K raises ZeroDivisionError
\* when the strike is the Python number 0.
calculate_call_option_price(self) ==
    IF self.K = 0 THEN Raise("ZeroDivisionError")
    ELSE LET d1 == call_d1(self)
             d2 == call_d2(self)
         IN  Return(FSub(FMul(Fin(IntToFx(self.S)), norm_cdf(d1)),
                         FMul(DiscountedStrike(self), norm_cdf(d2))))

\* Mutant of calculate_put_option_price: the strike is not discounted.
calculate_put_option_price_undiscounted(self) ==
    IF self.K = 0 THEN Raise("ZeroDivisionError")
    ELSE LET d1 == put_d1(self)
             d2 == put_d2(self)
         IN  Return(FSub(FMul(Fin(IntToFx(self.K)), norm_cdf(FNeg(d2))),
                         FMul(Fin(IntToFx(self.S)), norm_cdf(FNeg(d1)))))

\* _calculate_put_option_price
calculate_put_option_price(self) ==
    IF self.K = 0 THEN Raise("ZeroDivisionError")
    ELSE LET d1 == put_d1(self)
             d2 == put_d2(self)
         IN  Return(FSub(FMul(DiscountedStrike(self), norm_cdf(FNeg(d2))),
                         FMul(Fin(IntToFx(self.S)), norm_cdf(FNeg(d1)))))

(***************************************************************************)
(* OptionPricingModel                                                      *)
(***************************************************************************)
\* Mutant of calculate_option_price: a plain else in place of the elif, so
\* every selector but 'Call Option' is priced as a put.
calculate_option_price_else_put(self, option_type) ==
    IF PyEq(option_type, Value(CALL_OPTION))
    THEN [out |-> calculate_call_option_price(self), invoked |-> <<"call">>]
    ELSE [out |-> calculate_put_option_price(self), invoked |-> <<"put">>]

\* Mutant of calculate_option_price: the two hooks exchanged.
calculate_option_price_swapped(self, option_type) ==
    IF PyEq(option_type, Value(CALL_OPTION))
    THEN [out |-> calculate_put_option_price(self), invoked |-> <<"put">>]
    ELSE IF PyEq(option_type, Value(PUT_OPTION))
    THEN [out |-> calculate_call_option_price(self), invoked |-> <<"call">>]
    ELSE [out |-> Return(Sentinel), invoked |-> <<>>]

\* Mutant of calculate_option_price: the hooks read the rate from a
\* module-level variable that the first pricing call of the program clears.
calculate_option_price_shared_rate(self, option_type) ==
    LET seen == IF caller = 0 THEN self ELSE [self EXCEPT !.r = 0]
    IN  IF PyEq(option_type, Value(CALL_OPTION))
        THEN [out |-> calculate_call_option_price(seen), invoked |-> <<"call">>]
        ELSE IF PyEq(option_type, Value(PUT_OPTION))
        THEN [out |-> calculate_put_option_price(seen), invoked |-> <<"put">>]
        ELSE [out |-> Return(Sentinel), invoked |-> <<>>]

\* calculate_option_price: the outcome of the call and the hooks it
\* invoked, in order.
calculate_option_price(self, option_type) ==
    IF PyEq(option_type, Value(CALL_OPTION))
    THEN [out |-> calculate_call_option_price(self), invoked |-> <<"call">>]
    ELSE IF PyEq(option_type, Value(PUT_OPTION))
    THEN [out |-> calculate_put_option_price(self), invoked |-> <<"put">>]
    ELSE [out |-> Return(Sentinel), invoked |-> <<>>]

Ids == {1, 2}

\* Arguments of the constructor: spot, strike and days are Python ints,
\* rate and volatility are doubles (in units of 1 / Scale).
SpotPrices == {-50, 0, 50, 100, 120}
StrikePrices == {0, 50, 100}
DaysToMaturity == {0, 73, 365}
Rates == {-20000, 50000}
Sigmas == {0, 200000, 400000}

Args(spots, strikes, days, rates, sigmas) ==
    [underlying_spot_price : spots, strike_price : strikes,
     days_to_maturity : days, risk_free_rate : rates, sigma : sigmas]

AllArgs == Args(SpotPrices, StrikePrices, DaysToMaturity, Rates, Sigmas)

\* The smaller set two instances are built from.
PairArgs == Args({50, 100}, {100}, {365}, {50000}, {0, 200000})

\* Selectors a caller passes: the two display strings, strings that differ
\* from them in case or whitespace, and the enumeration members themselves.
Selectors ==
    {Str("Call Option"), Str("Put Option"), Str("call option"),
     Str("Put Option "), CALL_OPTION, PUT_OPTION}

PairSelectors == {Str("Call Option"), Str("Put Option"), Str("Straddle")}

NoFields == [S |-> 0, K |-> 0, T |-> 0, r |-> 0, sigma |-> 0]
NoArgs == [underlying_spot_price |-> 0, strike_price |-> 0,
           days_to_maturity |-> 0, risk_free_rate |-> 0, sigma |-> 0]
NoPrices == [call |-> NoOutcome, put |-> NoOutcome]

Init ==
    /\ live = [i \in Ids |-> FALSE]
    /\ obj = [i \in Ids |-> NoFields]
    /\ args = [i \in Ids |-> NoArgs]
    /\ price = [i \in Ids |-> NoPrices]
    /\ caller = 0
    /\ selector = NoValue
    /\ ret = NoOutcome
    /\ invoked = <<>>

\* BlackScholesModel(...): instance i is constructed with the arguments a.
Construct(i, a) ==
    /\ ~live[i]
    /\ live' = [live EXCEPT ![i] = TRUE]
    /\ obj' = [obj EXCEPT ![i] =
                  BlackScholesModel_init(a.underlying_spot_price, a.strike_price,
                                         a.days_to_maturity, a.risk_free_rate,
                                         a.sigma)]
    /\ args' = [args EXCEPT ![i] = a]
    /\ UNCHANGED <<price, caller, selector, ret, invoked>>

InSeq(x, sq) == \E n \in 1..Len(sq) : sq[n] = x

\* Mutant of CalculateOptionPrice: a hook converts self.T to years again,
\* in place.
CalculateOptionPrice_rescaling(i, sel) ==
    /\ live[i]
    /\ LET res == calculate_option_price(obj[i], sel)
       IN  /\ ret' = res.out
           /\ invoked' = res.invoked
           /\ price' = [price EXCEPT
                  ![i].call = IF InSeq("call", res.invoked) THEN res.out ELSE @,
                  ![i].put = IF InSeq("put", res.invoked) THEN res.out ELSE @]
           /\ obj' = [obj EXCEPT ![i].T =
                         IF res.invoked # <<>> THEN @ \div 365 ELSE @]
    /\ caller' = i
    /\ selector' = sel
    /\ UNCHANGED <<live, args>>

\* instance i .calculate_option_price(sel), the hook it dispatches to
\* included.  Neither the dispatch nor a hook assigns a field.
CalculateOptionPrice(i, sel) ==
    /\ live[i]
    /\ LET res == calculate_option_price(obj[i], sel)
       IN  /\ ret' = res.out
           /\ invoked' = res.invoked
           /\ price' = [price EXCEPT
                  ![i].call = IF InSeq("call", res.invoked) THEN res.out ELSE @,
                  ![i].put = IF InSeq("put", res.invoked) THEN res.out ELSE @]
    /\ caller' = i
    /\ selector' = sel
    /\ UNCHANGED <<live, obj, args>>

\* One instance, every argument of AllArgs, every selector.
Next ==
    \/ \E a \in AllArgs : Construct(1, a)
    \/ \E sel \in Selectors : CalculateOptionPrice(1, sel)

Spec == Init /\ [][Next]_vars

\* Two instances, built and called in any order.
NextPair ==
    \/ \E i \in Ids, a \in PairArgs : Construct(i, a)
    \/ \E i \in Ids, sel \in PairSelectors : CalculateOptionPrice(i, sel)

SpecPair == Init /\ [][NextPair]_vars

(***************************************************************************)
(* Claims                                                                  *)
(***************************************************************************)
\* A pricing call has been made, on instance `caller`.
Called == caller # 0

\* The parameters the formula is defined for: S > 0, K > 0, T > 0,
\* sigma > 0, any r.
ValidFields(f) == f.S > 0 /\ f.K > 0 /\ f.T > 0 /\ f.sigma > 0

\* 1e-6, in units of 1 / Scale.
Tolerance == Scale \div 10^6

\* C1: a selector equal to neither 'Call Option' nor 'Put Option' makes
\* calculate_option_price return exactly -1: it does not raise and invokes
\* no hook, whatever the stored parameters (sigma = 0, T = 0, K = 0, ...).
C1_UnknownSelectorReturnsMinusOne ==
    (Called /\ selector \notin {Str("Call Option"), Str("Put Option")})
        => /\ ret.kind = "return"
           /\ ret.val = Fin(-1 * One)
           /\ invoked = <<>>

\* C1 witness: an unknown selector on an instance with sigma = 0 and T = 0
\* and strike 0 returned -1.
C1_Witness ==
    /\ Called
    /\ selector = Str("call option")
    /\ obj[caller].sigma = 0 /\ obj[caller].T = 0 /\ obj[caller].K = 0
    /\ ret = Return(Fin(-1 * One))
    /\ invoked = <<>>

\* C2: 'Call Option' returns what _calculate_call_option_price gives and
\* 'Put Option' what _calculate_put_option_price gives; exactly that one
\* hook is invoked, once.
C2_DispatchToMatchingHook ==
    /\ (Called /\ selector = Str("Call Option"))
          => ret = calculate_call_option_price(obj[caller]) /\ invoked = <<"call">>
    /\ (Called /\ selector = Str("Put Option"))
          => ret = calculate_put_option_price(obj[caller]) /\ invoked = <<"put">>

\* C2 witness: 'Put Option' on S = 100, K = 100, T = 1, r = 5%, sigma = 20%
\* returned the put price 5.5736 through the put hook alone.
C2_Witness ==
    /\ Called
    /\ selector = Str("Put Option")
    /\ obj[caller] = [S |-> 100, K |-> 100, T |-> One, r |-> 50000, sigma |-> 200000]
    /\ invoked = <<"put">>
    /\ ret.kind = "return" /\ IsFin(ret.val)
    /\ Abs(ret.val.v - 5573500) <= 1000

\* C3 (as claimed): constructing a BlackScholesModel with sigma = 0 or
\* days_to_maturity = 0 raises, so no such instance ever exists.
C3_ZeroSigmaOrMaturityRejected ==
    \A i \in Ids :
        live[i] => args[i].sigma # 0 /\ args[i].days_to_maturity # 0

\* C3, what the code does: an instance built with days_to_maturity = 0 and
\* spot = strike prices to NaN, silently.
C3_SilentNaN ==
    /\ Called
    /\ args[caller].days_to_maturity = 0
    /\ obj[caller].S > 0 /\ obj[caller].K > 0 /\ obj[caller].sigma > 0
    /\ invoked = <<"call">>
    /\ ret = Return(NaN)

\* C4 (as claimed): pricing with S <= 0 or K <= 0 fails with an error, it
\* does not return a number.  T and sigma are taken positive, so that a
\* return is the doing of the spot or the strike alone.
C4_NonPositiveSpotOrStrikeFails ==
    (/\ Called /\ invoked # <<>>
     /\ obj[caller].T > 0 /\ obj[caller].sigma > 0
     /\ (obj[caller].S <= 0 \/ obj[caller].K <= 0))
        => ret.kind = "raise"

\* C4, what the code does: spot 0 prices the call to 0.0.
C4_ZeroSpotPricesToZero ==
    /\ Called
    /\ obj[caller].S = 0 /\ obj[caller].K > 0
    /\ obj[caller].T > 0 /\ obj[caller].sigma > 0
    /\ invoked = <<"call">>
    /\ ret = Return(Fin(0))

\* S - K * exp(-r * T)
Forward(f) == IntToFx(f.S) - MulFx(IntToFx(f.K), ExpFx(MulFx(-f.r, f.T)))

BothPriced(i) ==
    live[i] /\ price[i].call.kind # "none" /\ price[i].put.kind # "none"

\* C5: for valid parameters the call and put prices of one instance satisfy
\* put-call parity, call - put = S - K * exp(-r * T), within 1e-6.
C5_PutCallParity ==
    \A i \in Ids :
        (BothPriced(i) /\ ValidFields(obj[i]))
            => /\ price[i].call.kind = "return" /\ IsFin(price[i].call.val)
               /\ price[i].put.kind = "return" /\ IsFin(price[i].put.val)
               /\ Abs((price[i].call.val.v - price[i].put.val.v) - Forward(obj[i]))
                     <= Tolerance

\* C5 witness: S = 100, K = 100, 365 days, r = 5%, sigma = 20% priced both
\* ways: call 10.4506 and put 5.5735 within 1e-3.
C5_Witness ==
    /\ BothPriced(1)
    /\ args[1] = [underlying_spot_price |-> 100, strike_price |-> 100,
                  days_to_maturity |-> 365, risk_free_rate |-> 50000,
                  sigma |-> 200000]
    /\ Abs(price[1].call.val.v - 10450600) <= 1000
    /\ Abs(price[1].put.val.v - 5573500) <= 1000

\* C7: no calculate_option_price call, whatever its selector, changes a
\* stored parameter (S, K, T, r, sigma) of a constructed instance.
C7_PricingLeavesFieldsUnchanged ==
    [][\A i \in Ids : live[i] => obj'[i] = obj[i]]_vars

\* C7 witness: an instance that has priced a call, a put and then an
\* unknown selector still holds the fields its constructor stored.
C7_Witness ==
    /\ BothPriced(1)
    /\ selector = Str("call option")
    /\ ValidFields(obj[1])
    /\ obj[1] = [S |-> args[1].underlying_spot_price,
                  K |-> args[1].strike_price,
                  T |-> IF args[1].days_to_maturity = 365 THEN One ELSE One \div 5,
                  r |-> args[1].risk_free_rate,
                  sigma |-> args[1].sigma]

Hooks == {"call", "put"}

\* C8: pricing is deterministic and history-independent.  Whenever a call
\* stores the outcome of a hook of instance i, it equals every outcome of
\* the same hook obtained before from an instance with the same five
\* parameters: from i itself, whatever calls were made in between, and from
\* any other instance.
C8_DeterministicHistoryIndependent ==
    [][\A i, j \in Ids : \A h \in Hooks :
          (/\ live[i] /\ live[j]
           /\ obj[i] = obj[j]
           /\ price[j][h].kind # "none"
           /\ price'[i][h].kind # "none")
              => price'[i][h] = price[j][h]]_vars

\* C8 witness: two instances with the same valid parameters and different
\* histories (instance 1 priced put then call, instance 2 only the call,
\* last) hold the same call price.
C8_Witness ==
    /\ live[1] /\ live[2]
    /\ obj[1] = obj[2]
    /\ ValidFields(obj[1])
    /\ price[1].put.kind = "return"
    /\ price[2].put.kind = "none"
    /\ price[1].call.kind = "return"
    /\ price[2].call = price[1].call
    /\ caller = 2

\* What rounding at this resolution can put between d2 and
\* d1 - sigma * sqrt(T): the two numerators are rounded (1 unit together,
\* divided by sigma * sqrt(T) >= 0.089: under 12 units), and so are the two
\* quotients and the product (2 units).
D2Tolerance == 20 * Tolerance

\* C9: the constructor stores T = days_to_maturity / 365 (365 days give 1,
\* 0 days give 0) and the other four arguments unchanged; both hooks get
\* the same d1 and the same d2 from the stored values, and
\* d2 = d1 - sigma * sqrt(T).
C9_StoredFieldsAndSharedD1D2 ==
    \A i \in Ids :
        live[i] =>
            /\ obj[i].S = args[i].underlying_spot_price
            /\ obj[i].K = args[i].strike_price
            /\ obj[i].r = args[i].risk_free_rate
            /\ obj[i].sigma = args[i].sigma
            /\ 2 * Abs(obj[i].T * 365 - args[i].days_to_maturity * Scale) <= 365
            /\ args[i].days_to_maturity = 365 => obj[i].T = One
            /\ args[i].days_to_maturity = 0 => obj[i].T = 0
            /\ obj[i].K # 0 =>
                  /\ call_d1(obj[i]) = put_d1(obj[i])
                  /\ call_d2(obj[i]) = put_d2(obj[i])
                  /\ call_d1(obj[i]).cls = call_d2(obj[i]).cls
                  /\ call_d1(obj[i]).cls = "inf" => call_d2(obj[i]) = call_d1(obj[i])
                  /\ call_d1(obj[i]).cls = "fin" =>
                        Abs(call_d2(obj[i]).v
                              - (call_d1(obj[i]).v
                                   - MulFx(obj[i].sigma, SqrtFx(obj[i].T))))
                           <= D2Tolerance

\* C9 witness: 365 days stored as T = 1, with d1 = 0.35 and d2 = 0.15 for
\* S = K = 100, r = 5%, sigma = 20%.
C9_Witness ==
    /\ live[1]
    /\ args[1] = [underlying_spot_price |-> 100, strike_price |-> 100,
                  days_to_maturity |-> 365, risk_free_rate |-> 50000,
                  sigma |-> 200000]
    /\ obj[1].T = One
    /\ put_d1(obj[1]) = Fin(350000)
    /\ put_d2(obj[1]) = Fin(150000)
    /\ price[1].put.kind = "return"

\* C10: the selector must equal a display string exactly: the enumeration
\* member itself, or a string that differs in case or whitespace, is
\* unrecognized and returns -1 instead of a price.
C10_MemberOrNearMissIsUnrecognized ==
    (Called /\ selector \in {CALL_OPTION, PUT_OPTION, Str("call option"),
                                Str("Put Option ")})
        => ret = Return(Fin(-1 * One)) /\ invoked = <<>>

\* C10 witness: OPTION_TYPE.CALL_OPTION passed to a valid instance
\* returned -1.
C10_Witness ==
    /\ Called
    /\ selector = Member("Call Option")
    /\ ValidFields(obj[caller])
    /\ ret = Return(Fin(-1 * One))
====
